---- MODULE Spec2Model ----
(***************************************************************************)
(* PaperFeed (api/index.py): the fetch-score-dedup-cache pipeline.         *)
(*                                                                         *)
(* fetch_all_papers_for_days is a coroutine.  It runs on one asyncio event *)
(* loop, so the code between two awaits is one atomic step.  Its only      *)
(* suspension point on the miss path is the await of asyncio.gather, hence *)
(* a request is modelled by three steps: Begin (key, clock read, cache     *)
(* check, launch of the adapters), Complete (one adapter task ends) and    *)
(* Finish (gather returns; merge, score, filter, sort, cache write).       *)
(*                                                                         *)
(* Conventions: a str that the code only compares is a TLA+ string; a str  *)
(* that is searched (title, abstract, term) is a tuple of one-character    *)
(* strings; a float score is an integer number of tenths and a weight an   *)
(* integer number of tenths; a date is a day number; None is <<>>, and in *)
(* a str field None is NoneStr.  No total_score of the configs and papers   *)
(* below lies halfway between two tenths, so the tie rule of round() on a  *)
(* binary float plays no part.                                             *)
(* time.time() is taken to be non-decreasing.                              *)
(***************************************************************************)
EXTENDS Integers, Sequences, FiniteSets, TLC

\* ------------------------------------------------------------------ bounds
MaxReq == 3          \* requests issued in one behaviour
MaxTicks == 2        \* clock advances in one behaviour
MaxAuthors == 7      \* author elements of one record
MaxRecords == 3      \* records of one payload

\* --------------------------------------------------------------- constants
CACHE_TTL_SECONDS == 300

\* collection.max_results when config.yaml gives none
DefaultMaxResults == 200

\* the slice authors[:5] and the test len(authors) > 5
MaxDisplayed == 5

\* time.time() when the process serves its first request (any value above
\* the TTL: the slot's initial timestamp 0.0 is then always expired)
Clock0 == 1000

\* ------------------------------------------------------------ text helpers
UpperToLower ==
    ("A" :> "a") @@ ("B" :> "b") @@ ("C" :> "c") @@ ("D" :> "d") @@ ("E" :> "e") @@ ("F" :> "f")
    @@ ("G" :> "g") @@ ("H" :> "h") @@ ("I" :> "i") @@ ("J" :> "j") @@ ("K" :> "k") @@ ("L" :> "l")
    @@ ("M" :> "m") @@ ("N" :> "n") @@ ("O" :> "o") @@ ("P" :> "p") @@ ("Q" :> "q") @@ ("R" :> "r")
    @@ ("S" :> "s") @@ ("T" :> "t") @@ ("U" :> "u") @@ ("V" :> "v") @@ ("W" :> "w") @@ ("X" :> "x")
    @@ ("Y" :> "y") @@ ("Z" :> "z")

\* str.lower()
Lower(s) ==
    [i \in 1..Len(s) |-> IF s[i] \in DOMAIN UpperToLower THEN UpperToLower[s[i]] ELSE s[i]]

\* `sub in s` for str
Contains(s, sub) ==
    \E i \in 0..(Len(s) - Len(sub)) :
        \A j \in 1..Len(sub) : s[i + j] = sub[j]

\* the order of str.__lt__ on the area names used below
StrRank == ("ai" :> 1) @@ ("gut" :> 2)

StrLess(a, b) == StrRank[a] < StrRank[b]

\* ------------------------------------------------------------------ config
\* Config.areas is a dict: a sequence of areas in insertion order, names unique
AreasGutAi ==
    << [name |-> "gut", terms |-> << <<"g","u","t">>, <<"B","i","o">> >>, weight |-> 10],
       [name |-> "ai",  terms |-> << <<"A","I">> >>,                      weight |-> 15] >>

CfgAll ==
    [areas |-> AreasGutAi, lookback_days |-> 7, max_results |-> 200,
     title_multiplier |-> 20,
     pubmed_enabled |-> TRUE, biorxiv_enabled |-> TRUE, arxiv_enabled |-> TRUE,
     arxiv_categories |-> <<"cs.AI", "q-bio.GN">>,
     high_impact_journals |-> <<"PNAS", "Nature">>,
     high_impact_lookback_days |-> 90,
     other_lookback_options |-> <<7, 14>>]

CfgPreprints ==
    [CfgAll EXCEPT !.pubmed_enabled = FALSE]

CfgArxiv ==
    [CfgAll EXCEPT !.pubmed_enabled = FALSE, !.biorxiv_enabled = FALSE]

CfgNone ==
    [CfgAll EXCEPT !.pubmed_enabled = FALSE, !.biorxiv_enabled = FALSE,
                   !.arxiv_enabled = FALSE, !.other_lookback_options = <<7>>]

CfgPubmed ==
    [CfgAll EXCEPT !.biorxiv_enabled = FALSE, !.arxiv_enabled = FALSE]

\* CfgArxiv after an edit of config.yaml that swaps the two areas
CfgAreasSwapped ==
    [CfgArxiv EXCEPT !.areas = <<AreasGutAi[2], AreasGutAi[1]>>]

\* ... that swaps the two terms of the first area
CfgTermsSwapped ==
    [CfgArxiv EXCEPT !.areas[1].terms = <<AreasGutAi[1].terms[2], AreasGutAi[1].terms[1]>>]

\* ... that swaps the two arXiv categories
CfgCategoriesSwapped ==
    [CfgArxiv EXCEPT !.arxiv_categories = <<"q-bio.GN", "cs.AI">>]

\* ... that swaps the two high-impact journals
CfgJournalsSwapped ==
    [CfgArxiv EXCEPT !.high_impact_journals = <<"Nature", "PNAS">>]

\* PubMed only, no high_impact_journals entry in config.yaml
CfgNoJournals ==
    [CfgPubmed EXCEPT !.high_impact_journals = <<>>]

\* what load_config() can return
Configs ==
    [all |-> CfgAll, preprints |-> CfgPreprints, arxiv |-> CfgArxiv, none |-> CfgNone,
     pubmed |-> CfgPubmed,
     areas_swapped |-> CfgAreasSwapped, terms_swapped |-> CfgTermsSwapped,
     categories_swapped |-> CfgCategoriesSwapped, journals_swapped |-> CfgJournalsSwapped,
     no_journals |-> CfgNoJournals]

ConfigNames == DOMAIN Configs

Range(s) == {s[i] : i \in DOMAIN s}

\* ------------------------------------------------------------------ papers
Paper(title, abstract, url, published_date, source, journal) ==
    [title |-> title, authors |-> "", abstract |-> abstract, url |-> url,
     published_date |-> published_date, source |-> source, journal |-> journal,
     matched_areas |-> <<>>, score |-> 0]

T_Gut == <<"G","u","t">>
T_GutAI == <<"G","u","t"," ","A","I">>
T_Ai == <<"a","i">>
T_Bio == <<"b","i","o">>
T_Ab == <<"a","b">>
T_None == <<>>

\* None where a str is expected (JSON null)
NoneStr == <<"None">>

PM1 == Paper(T_Gut, T_Ab, "pubmed/1", 98, "pubmed", "Gut")
\* the same PMID as the journal-filtered query returns it
PM1hi == Paper(T_Gut, T_Ai, "pubmed/1", 97, "pubmed", "Gut")
PM2 == Paper(T_Ab, T_None, "pubmed/2", 99, "pubmed", "PNAS")
\* bioRxiv records without a DOI have url ""
BX1 == Paper(T_Bio, T_None, "", 96, "biorxiv", "bioRxiv")
BX2 == Paper(T_GutAI, T_None, "", 99, "biorxiv", "bioRxiv")
\* two versions of one preprint share the DOI
BX3 == Paper(T_Ai, T_None, "biorxiv/3", 95, "biorxiv", "bioRxiv")
BX3v2 == Paper(T_Ai, T_Bio, "biorxiv/3", 99, "biorxiv", "bioRxiv")
\* a bioRxiv item with "abstract": null: item.get("abstract", "") is None
BXnull == Paper(T_Gut, NoneStr, "biorxiv/4", 99, "biorxiv", "bioRxiv")
AX1 == Paper(T_GutAI, T_Gut, "arxiv/1", 99, "arxiv", "arXiv")
\* the same score as AX1, published earlier
AX2 == Paper(T_GutAI, T_Gut, "arxiv/2", 97, "arxiv", "arXiv")
AX3 == Paper(T_Ai, T_None, "arxiv/3", 98, "arxiv", "arXiv")
\* matches no term
AX0 == Paper(T_Ab, T_None, "arxiv/0", 99, "arxiv", "arXiv")
\* PubMed selects on the entry date; the publication date of a record it
\* returns can lie outside the queried window
PM3 == Paper(T_Gut, T_None, "pubmed/3", 90, "pubmed", "Gut")
PM4 == Paper(T_Bio, T_None, "pubmed/4", 90, "pubmed", "Nature")
PM5 == Paper(T_Ai, T_None, "pubmed/5", 5, "pubmed", "PNAS")

PubmedFeed == <<PM1, PM2, PM3>>
PubmedHiFeed == <<PM1hi, PM4, PM5>>
BiorxivFeed == <<BX1, BX3, BX2, BX3v2>>
ArxivFeed == <<AX3, AX1, AX0, AX2>>

\* the adapters, in the order fetch_all_papers_for_days appends their tasks
Adapters == <<"pubmed", "pubmed_high_impact", "biorxiv", "arxiv">>

\* what an adapter coroutine can return when the provider answers
Payloads ==
    [pubmed |-> {PubmedFeed},
     pubmed_high_impact |-> {PubmedHiFeed},
     biorxiv |-> {BiorxivFeed, <<BXnull>>},
     arxiv |-> {ArxivFeed}]

\* one entry of the list asyncio.gather(..., return_exceptions=True) returns:
\* the list a task returned, or the exception object of a task that raised
ListResult(papers) == [kind |-> "list", papers |-> papers]

Raised == [kind |-> "exception", papers |-> <<>>]

\* isinstance(result, list)
IsList(result) == result.kind = "list"

\* how a launched adapter task can end: the provider answers and the adapter
\* returns its records; the adapter catches a failure and returns []; or an
\* exception escapes the adapter coroutine
Outcomes(adapter) ==
    {ListResult(p) : p \in Payloads[adapter]} \cup {ListResult(<<>>), Raised}

\* ---------------------------------------------------------------- pipeline
\* sorted(config.areas.items()): insertion sort on the area name
RECURSIVE SortedAreas(_)
SortedAreas(areas) ==
    IF areas = <<>> THEN <<>>
    ELSE LET rest == SortedAreas(Tail(areas))
             a == Head(areas)
             k == Cardinality({i \in 1..Len(rest) : StrLess(rest[i].name, a.name)})
         IN  SubSeq(rest, 1, k) \o <<a>> \o SubSeq(rest, k + 1, Len(rest))

\* the key with config.areas.items() in place of sorted(config.areas.items())
CacheKeyUnsorted(config, lookback_days, high_impact_days) ==
    << lookback_days,
       high_impact_days,
       config.max_results,
       config.pubmed_enabled,
       config.biorxiv_enabled,
       config.arxiv_enabled,
       config.arxiv_categories,
       [i \in 1..Len(config.areas) |->
           LET v == config.areas[i] IN <<v.name, v.weight, v.terms>>],
       config.title_multiplier,
       config.high_impact_journals >>

\* lines 437-448
CacheKey(config, lookback_days, high_impact_days) ==
    << lookback_days,
       high_impact_days,
       config.max_results,
       config.pubmed_enabled,
       config.biorxiv_enabled,
       config.arxiv_enabled,
       config.arxiv_categories,
       [i \in 1..Len(config.areas) |->
           LET v == SortedAreas(config.areas)[i] IN <<v.name, v.weight, v.terms>>],
       config.title_multiplier,
       config.high_impact_journals >>

\* the coroutines appended with the journal test outside the PubMed test
TasksJournalsAlone(config) ==
    (IF config.pubmed_enabled THEN <<"pubmed">> ELSE <<>>)
    \o (IF config.high_impact_journals # <<>> THEN <<"pubmed_high_impact">> ELSE <<>>)
    \o (IF config.biorxiv_enabled THEN <<"biorxiv">> ELSE <<>>)
    \o (IF config.arxiv_enabled THEN <<"arxiv">> ELSE <<>>)

\* the coroutines appended to tasks, in order
Tasks(config) ==
    (IF config.pubmed_enabled
        THEN <<"pubmed">> \o
             (IF config.high_impact_journals # <<>> THEN <<"pubmed_high_impact">> ELSE <<>>)
        ELSE <<>>)
    \o (IF config.biorxiv_enabled THEN <<"biorxiv">> ELSE <<>>)
    \o (IF config.arxiv_enabled THEN <<"arxiv">> ELSE <<>>)

\* the first argument (days) of each coroutine appended to tasks, in order
TaskDays(config, lookback_days, high_impact_days) ==
    (IF config.pubmed_enabled
        THEN <<lookback_days>> \o
             (IF config.high_impact_journals # <<>> THEN <<high_impact_days>> ELSE <<>>)
        ELSE <<>>)
    \o (IF config.biorxiv_enabled THEN <<lookback_days>> ELSE <<>>)
    \o (IF config.arxiv_enabled THEN <<lookback_days>> ELSE <<>>)

\* round(x, 1) for x given in hundredths, result in tenths (ties to even)
Round1(hundredths) ==
    LET q == hundredths \div 10
        r == hundredths % 10
    IN  IF r < 5 THEN q
        ELSE IF r > 5 THEN q + 1
        ELSE IF q % 2 = 0 THEN q ELSE q + 1

\* the inner loop with = in place of += : the last matching term decides
RECURSIVE AreaScoreAssign(_, _, _, _)
AreaScoreAssign(terms, title, abstract, title_multiplier) ==
    IF terms = <<>> THEN 0
    ELSE LET term_lower == Lower(Head(terms))
             rest == AreaScoreAssign(Tail(terms), title, abstract, title_multiplier)
         IN  IF rest # 0 THEN rest
             ELSE IF Contains(abstract, term_lower) THEN 10
             ELSE IF Contains(title, term_lower) THEN title_multiplier ELSE 0

\* the inner loop with elif for the abstract test
RECURSIVE AreaScoreElif(_, _, _, _)
AreaScoreElif(terms, title, abstract, title_multiplier) ==
    IF terms = <<>> THEN 0
    ELSE LET term_lower == Lower(Head(terms))
         IN  (IF Contains(title, term_lower) THEN title_multiplier
              ELSE IF Contains(abstract, term_lower) THEN 10 ELSE 0)
             + AreaScoreElif(Tail(terms), title, abstract, title_multiplier)

\* the inner loop of score_paper: area_score in tenths
RECURSIVE AreaScore(_, _, _, _)
AreaScore(terms, title, abstract, title_multiplier) ==
    IF terms = <<>> THEN 0
    ELSE LET term_lower == Lower(Head(terms))
         IN  (IF Contains(title, term_lower) THEN title_multiplier ELSE 0)
             + (IF Contains(abstract, term_lower) THEN 10 ELSE 0)
             + AreaScore(Tail(terms), title, abstract, title_multiplier)

\* the outer loop of score_paper: <<matched_areas, total_score in hundredths>>
RECURSIVE ScoreAreas(_, _, _, _)
ScoreAreas(areas, title, abstract, title_multiplier) ==
    IF areas = <<>> THEN [matched_areas |-> <<>>, total_score |-> 0]
    ELSE LET area == Head(areas)
             area_score == AreaScore(area.terms, title, abstract, title_multiplier)
             rest == ScoreAreas(Tail(areas), title, abstract, title_multiplier)
         IN  IF area_score > 0
                THEN [matched_areas |-> <<area.name>> \o rest.matched_areas,
                      total_score |-> area_score * area.weight + rest.total_score]
                ELSE rest

\* lines 367-368: None has no attribute lower (AttributeError)
ScoreRaises(paper) == paper.title = NoneStr \/ paper.abstract = NoneStr

score_paper(paper, config) ==
    LET s == ScoreAreas(config.areas, Lower(paper.title), Lower(paper.abstract),
                        config.title_multiplier)
    IN  [paper EXCEPT !.matched_areas = s.matched_areas,
                      !.score = Round1(s.total_score)]

\* the inner for loop without seen_urls.add(paper.url)
RECURSIVE MergeListNoAdd(_, _)
MergeListNoAdd(acc, papers) ==
    IF papers = <<>> THEN acc
    ELSE LET paper == Head(papers)
         IN  IF paper.url # "" /\ paper.url \notin acc.seen_urls
                THEN MergeListNoAdd([all_papers |-> Append(acc.all_papers, paper),
                                     seen_urls |-> acc.seen_urls],
                                    Tail(papers))
                ELSE MergeListNoAdd(acc, Tail(papers))

\* the inner for loop of the merge: the papers of one result list
RECURSIVE MergeList(_, _)
MergeList(acc, papers) ==
    IF papers = <<>> THEN acc
    ELSE LET paper == Head(papers)
         IN  IF paper.url # "" /\ paper.url \notin acc.seen_urls
                THEN MergeList([all_papers |-> Append(acc.all_papers, paper),
                                seen_urls |-> acc.seen_urls \cup {paper.url}],
                               Tail(papers))
                ELSE MergeList(acc, Tail(papers))

\* the outer for loop with seen_urls emptied for every result
RECURSIVE MergeResultsSeenPerList(_, _)
MergeResultsSeenPerList(acc, results) ==
    IF results = <<>> THEN acc
    ELSE MergeResultsSeenPerList(
             IF IsList(Head(results))
                THEN MergeList([all_papers |-> acc.all_papers, seen_urls |-> {}],
                               Head(results).papers)
                ELSE acc,
             Tail(results))

\* the outer for loop leaving at the first result that is not a list
RECURSIVE MergeResultsAbort(_, _)
MergeResultsAbort(acc, results) ==
    IF results = <<>> THEN acc
    ELSE IF IsList(Head(results))
            THEN MergeResultsAbort(MergeList(acc, Head(results).papers), Tail(results))
            ELSE acc

\* the outer for loop of the merge: the gathered results in list order
RECURSIVE MergeResults(_, _)
MergeResults(acc, results) ==
    IF results = <<>> THEN acc
    ELSE MergeResults(IF IsList(Head(results))
                         THEN MergeList(acc, Head(results).papers)
                         ELSE acc,
                      Tail(results))

Merge(results) ==
    MergeResults([all_papers |-> <<>>, seen_urls |-> {}], results).all_papers

\* the sort key without the date: -p.score alone
KeyLessScoreOnly(p, q) ==
    -p.score < -q.score

\* the sort key (-p.score, p.published_date), compared as a tuple
KeyLess(p, q) ==
    \/ -p.score < -q.score
    \/ -p.score = -q.score /\ p.published_date < q.published_date

\* list.sort is stable: insertion sort, an element goes after its equals
RECURSIVE SortRelevant(_)
SortRelevant(papers) ==
    IF papers = <<>> THEN <<>>
    ELSE LET n == Len(papers)
             init == SortRelevant(SubSeq(papers, 1, n - 1))
             p == papers[n]
             k == Cardinality({i \in 1..Len(init) : ~KeyLess(p, init[i])})
         IN  SubSeq(init, 1, k) \o <<p>> \o SubSeq(init, k + 1, Len(init))

ScoreAll(all_papers, config) ==
    [i \in 1..Len(all_papers) |-> score_paper(all_papers[i], config)]

\* line 482 with >= in place of >
IsRelevantNonNegative(p) == p.score >= 0

\* line 482: the condition of the comprehension
IsRelevant(p) == p.score > 0

\* lines 471-485: from the gathered results to the sorted relevant papers
Pipeline(results, config) ==
    SortRelevant(SelectSeq(ScoreAll(Merge(results), config), IsRelevant))

\* line 481 raises when score_paper raises for a merged paper
PipelineRaises(results) ==
    LET all_papers == Merge(results)
    IN  \E i \in 1..Len(all_papers) : ScoreRaises(all_papers[i])

\* ------------------------------------------------------------ high impact
\* the characters of the journal names used here (a journal name is compared
\* as a TLA+ string elsewhere)
Chars ==
    ("" :> <<>>)
    @@ ("-" :> <<"-">>)
    @@ ("Gut" :> <<"G","u","t">>)
    @@ ("PNAS" :> <<"P","N","A","S">>)
    @@ ("P.N.A.S." :> <<"P",".","N",".","A",".","S",".">>)
    @@ ("Proc Natl Acad Sci USA" :> <<"P","r","o","c"," ","N","a","t","l"," ","A","c","a","d"," ","S","c","i"," ","U","S","A">>)
    @@ ("Nature" :> <<"N","a","t","u","r","e">>)
    @@ ("Nature Medicine" :> <<"N","a","t","u","r","e"," ","M","e","d","i","c","i","n","e">>)
    @@ ("bioRxiv" :> <<"b","i","o","R","x","i","v">>)
    @@ ("arXiv" :> <<"a","r","X","i","v">>)

Letters == DOMAIN UpperToLower \cup {UpperToLower[c] : c \in DOMAIN UpperToLower}

Digits == {"0", "1", "2", "3", "4", "5", "6", "7", "8", "9"}

\* ch.isalnum()
IsAlnum(ch) == ch \in Letters \cup Digits

\* lines 390-391
_normalize_journal(name) == SelectSeq(Lower(Chars[name]), IsAlnum)

\* line 402
alias_map == (<<"p","n","a","s">> :> <<"p","r","o","c","n","a","t","l","a","c","a","d","s","c","i","u","s","a">>)

\* dict.get: None for a missing key
AliasGet(norm) == IF norm \in DOMAIN alias_map THEN alias_map[norm] ELSE NoneStr

\* the body of the loop without the test of line 412
JournalMatchesOneWay(journal, paper_norm) ==
    LET journal_norm == _normalize_journal(journal)
    IN  /\ journal_norm # <<>>
        /\ \/ journal_norm = paper_norm
           \/ Contains(paper_norm, journal_norm)
           \/ Contains(journal_norm, paper_norm)
           \/ AliasGet(journal_norm) = paper_norm

\* lines 404-413: the body of the loop for one configured journal
JournalMatches(journal, paper_norm) ==
    LET journal_norm == _normalize_journal(journal)
    IN  /\ journal_norm # <<>>
        /\ \/ journal_norm = paper_norm
           \/ Contains(paper_norm, journal_norm)
           \/ Contains(journal_norm, paper_norm)
           \/ AliasGet(journal_norm) = paper_norm
           \/ AliasGet(paper_norm) = journal_norm

\* lines 393-414, for a paper whose journal is the given one
JournalIsHighImpact(journal, high_impact_journals) ==
    IF journal = "" THEN FALSE
    ELSE LET paper_norm == _normalize_journal(journal)
         IN  IF paper_norm = <<>> THEN FALSE
             ELSE \E i \in 1..Len(high_impact_journals) :
                      JournalMatches(high_impact_journals[i], paper_norm)

is_high_impact(paper, config) ==
    JournalIsHighImpact(paper.journal, config.high_impact_journals)

\* ------------------------------------------------------------------- state
VARIABLES
    clock,      \* what time.time() returns now
    ticks,      \* how often the clock has advanced
    cache,      \* _CACHE
    pc,         \* per request: "idle", "fetching" (suspended in gather), "done"
                \* (returned a list), "error" (raised to the caller)
    args,       \* per request: the arguments of fetch_all_papers_for_days
    now,        \* per request: the local now
    tasks,      \* per request: the local tasks
    windows,    \* per request: the days argument of each task, in the order of tasks
    completed,  \* per request: <<task index, result>> of the ended tasks, in completion order
    ret,        \* per request: the returned list
    hit,        \* per request: TRUE iff it returned at line 451
    seen,       \* per request: the request whose write _CACHE held at line 450 (0: none)
    writer,     \* per _CACHE field: the request whose assignment it holds (0: the initial value)
    ident,      \* which list object _CACHE["papers"] is, and which one each request was returned
    page,       \* per request: what index() hands to the template (None: not yet)
    fn          \* a pure function under test: its name, its arguments and its value

vars == <<clock, ticks, cache, pc, args, now, tasks, completed, ret, hit, seen, writer,
          ident, page, fn, windows>>

Requests == 1..MaxReq

None == <<>>

NoArgs == [config |-> "none", lookback_days |-> 0, high_impact_days |-> 0]

\* a list object is named by the request and the expression that created it
NoList == <<0, "None">>

NoCall ==
    [op |-> "none", input |-> <<>>, output |-> <<>>, applied |-> FALSE, raised |-> FALSE]

\* the module after import, before the first request
InitService ==
    /\ clock = Clock0
    /\ ticks = 0
    /\ cache = [timestamp |-> 0, key |-> None, papers |-> None]
    /\ pc = [r \in Requests |-> "idle"]
    /\ args = [r \in Requests |-> NoArgs]
    /\ now = [r \in Requests |-> 0]
    /\ tasks = [r \in Requests |-> <<>>]
    /\ windows = [r \in Requests |-> <<>>]
    /\ completed = [r \in Requests |-> <<>>]
    /\ ret = [r \in Requests |-> <<>>]
    /\ hit = [r \in Requests |-> FALSE]
    /\ seen = [r \in Requests |-> 0]
    /\ writer = [timestamp |-> 0, key |-> 0, papers |-> 0]
    /\ ident = [cache |-> NoList, ret |-> [r \in Requests |-> NoList]]
    /\ page = [r \in Requests |-> None]

Init ==
    /\ InitService
    /\ fn = NoCall

\* the local cache_key of request r
cache_key(r) ==
    CacheKey(Configs[args[r].config], args[r].lookback_days, args[r].high_impact_days)

\* line 450 with the age comparison inverted
IsHitInverted(key, t) ==
    cache.key = key /\ (t - cache.timestamp) > CACHE_TTL_SECONDS

\* line 450 with <= in place of <
IsHitInclusive(key, t) ==
    cache.key = key /\ (t - cache.timestamp) <= CACHE_TTL_SECONDS

\* line 450 without the key comparison
IsHitAnyKey(key, t) ==
    (t - cache.timestamp) < CACHE_TTL_SECONDS

\* line 450
IsHit(key, t) ==
    cache.key = key /\ (t - cache.timestamp) < CACHE_TTL_SECONDS

\* line 451: list(_CACHE["papers"] or [])
HitResult == IF cache.papers = None THEN <<>> ELSE cache.papers

\* a hit that restarts the entry's time to live
CacheAfterHitRefreshed(t) == [cache EXCEPT !.timestamp = t]

\* lines 450-451: the hit branch reads the slot and assigns nothing to it
CacheAfterHit(t) == cache

\* line 451 returning _CACHE["papers"] itself
HitListShared(r) == ident.cache

\* line 451: list(...) makes a new list object
HitList(r) == <<r, "list(_CACHE)">>

\* line 489 storing relevant itself
StoredListShared(r) == <<r, "relevant">>

\* line 489: list(relevant) makes a new list object
StoredList(r) == <<r, "list(relevant)">>

\* time passes between two steps of the event loop
Tick ==
    /\ ticks < MaxTicks
    /\ \E d \in {1, CACHE_TTL_SECONDS - 1} : clock' = clock + d
    /\ ticks' = ticks + 1
    /\ UNCHANGED <<cache, pc, args, now, tasks, completed, ret, hit, seen, writer>>
    /\ UNCHANGED <<ident, page, fn, windows>>

\* index() calls fetch_all_papers_for_days(config, days, config.high_impact_lookback_days):
\* lines 436-469 up to the suspension in gather, or up to the return of line 451.
\* loaded: the configs load_config() can return.  Requests are numbered in the
\* order they are issued.
Begin(r, loaded) ==
    /\ pc[r] = "idle"
    /\ \A q \in Requests : q < r => pc[q] # "idle"
    /\ \E c \in loaded : \E days \in Range(Configs[c].other_lookback_options) :
          LET config == Configs[c]
              a == [config |-> c, lookback_days |-> days,
                    high_impact_days |-> config.high_impact_lookback_days]
              key == CacheKey(config, a.lookback_days, a.high_impact_days)
          IN  /\ args' = [args EXCEPT ![r] = a]
              /\ now' = [now EXCEPT ![r] = clock]
              /\ seen' = [seen EXCEPT ![r] = writer.key]
              /\ IF IsHit(key, clock)
                    THEN /\ ret' = [ret EXCEPT ![r] = HitResult]
                         /\ ident' = [ident EXCEPT !.ret[r] = HitList(r)]
                         /\ hit' = [hit EXCEPT ![r] = TRUE]
                         /\ pc' = [pc EXCEPT ![r] = "done"]
                         /\ cache' = CacheAfterHit(clock)
                         /\ UNCHANGED <<tasks, windows>>
                    ELSE /\ tasks' = [tasks EXCEPT ![r] = Tasks(config)]
                         /\ windows' = [windows EXCEPT ![r] =
                                TaskDays(config, a.lookback_days, a.high_impact_days)]
                         /\ pc' = [pc EXCEPT ![r] = "fetching"]
                         /\ UNCHANGED <<ret, hit, ident, cache>>
    /\ UNCHANGED <<clock, ticks, completed, writer, page, fn>>

\* the task indices that have ended
Ended(done) == {done[k][1] : k \in 1..Len(done)}

\* one adapter task of request r ends
Complete(r) ==
    /\ pc[r] = "fetching"
    /\ \E i \in (1..Len(tasks[r])) \ Ended(completed[r]) :
          \E result \in Outcomes(tasks[r][i]) :
              completed' = [completed EXCEPT ![r] = Append(@, <<i, result>>)]
    /\ UNCHANGED <<clock, ticks, cache, pc, args, now, tasks, ret, hit, seen, writer>>
    /\ UNCHANGED <<ident, page, fn, windows>>

\* the result of task i
ResultOf(i, done) ==
    LET k == CHOOSE k \in 1..Len(done) : done[k][1] = i IN done[k][2]

\* the results in the order of completion (as asyncio.as_completed yields them)
gatherAsCompleted(n, done) ==
    [k \in 1..Len(done) |-> done[k][2]]

\* the value of asyncio.gather(*tasks, return_exceptions=True): the results of
\* the ended tasks in the order of tasks, whatever the order of completion
RECURSIVE gather(_, _)
gather(n, done) ==
    IF n = 0 THEN <<>>
    ELSE gather(n - 1, done) \o (IF n \in Ended(done) THEN <<ResultOf(n, done)>> ELSE <<>>)

\* gather without return_exceptions resumes its awaiter at the first exception
GatherDoneFirstException(n, done) ==
    \/ Ended(done) = 1..n
    \/ \E k \in 1..Len(done) : ~IsList(done[k][2])

\* gather(return_exceptions=True) resumes its awaiter when every task has ended
GatherDone(n, done) == Ended(done) = 1..n

\* lines 487-489 without line 488
CacheWriteNoKey(r, relevant) ==
    /\ cache' = [timestamp |-> now[r], key |-> cache.key, papers |-> relevant]
    /\ writer' = [timestamp |-> r, key |-> writer.key, papers |-> r]

\* lines 487-489 under "if relevant:": an empty result is not stored
CacheWriteUnlessEmpty(r, relevant) ==
    IF relevant = <<>>
       THEN UNCHANGED <<cache, writer>>
       ELSE /\ cache' = [timestamp |-> now[r], key |-> cache_key(r), papers |-> relevant]
            /\ writer' = [timestamp |-> r, key |-> r, papers |-> r]

\* lines 487-489 with time.time() read again at line 487
CacheWriteAtArrival(r, relevant) ==
    /\ cache' = [timestamp |-> clock, key |-> cache_key(r), papers |-> relevant]
    /\ writer' = [timestamp |-> r, key |-> r, papers |-> r]

\* lines 487-489
CacheWrite(r, relevant) ==
    /\ cache' = [timestamp |-> now[r], key |-> cache_key(r), papers |-> relevant]
    /\ writer' = [timestamp |-> r, key |-> r, papers |-> r]

\* gather returns to request r: lines 469-490 run without suspension
Finish(r) ==
    /\ pc[r] = "fetching"
    /\ GatherDone(Len(tasks[r]), completed[r])
    /\ LET results == gather(Len(tasks[r]), completed[r])
           relevant == Pipeline(results, Configs[args[r].config])
       IN  IF PipelineRaises(results)
              THEN /\ pc' = [pc EXCEPT ![r] = "error"]
                   /\ UNCHANGED <<cache, writer, ret, ident>>
              ELSE /\ CacheWrite(r, relevant)
                   /\ ret' = [ret EXCEPT ![r] = relevant]
                   /\ ident' = [cache |-> StoredList(r),
                                ret |-> [ident.ret EXCEPT ![r] = <<r, "relevant">>]]
                   /\ pc' = [pc EXCEPT ![r] = "done"]
    /\ UNCHANGED <<clock, ticks, args, now, tasks, completed, hit, seen, page, fn, windows>>

\* Concurrent requests of a deployment whose config.yaml enables arXiv only.
Next ==
    \/ Tick
    \/ \E r \in Requests : Begin(r, {"arxiv"})
    \/ \E r \in Requests : Complete(r)
    \/ \E r \in Requests : Finish(r)

Spec == Init /\ [][Next]_vars

\* One request under any config, with every completion order of its tasks.
NextOne ==
    \/ Begin(1, ConfigNames)
    \/ Complete(1)
    \/ Finish(1)

SpecOne == Init /\ [][NextOne]_vars

\* line 469: once every task has ended the await returns and the coroutine
\* of request r leaves the gather, by the return of line 490 or by an
\* exception (the steps that change pc this way are the Finish steps)
GatherReturns(r) ==
    /\ pc[r] = "fetching"
    /\ GatherDone(Len(tasks[r]), completed[r])
    /\ pc' \in {[pc EXCEPT ![r] = "done"], [pc EXCEPT ![r] = "error"]}

\* SpecOne with progress: every launched adapter task ends (the timeout of
\* the client is 30 s), and the event loop resumes the coroutine once gather
\* is done
SpecOneLive ==
    /\ Init /\ [][NextOne]_vars
    /\ WF_vars(Complete(1))
    /\ WF_pc(GatherReturns(1))

\* ------------------------------------------------------- the index handler
\* date.today() as a day number
Today == 100

\* the query parameters area, source and sort of a request for "/"
Queries ==
    { [area |-> "",   source |-> "",       sort |-> "score"],
      [area |-> "",   source |-> "",       sort |-> "date"],
      [area |-> "ai", source |-> "",       sort |-> "score"],
      [area |-> "",   source |-> "pubmed", sort |-> "date"] }

\* lines 977-979
FilterArea(papers, area) ==
    LET Matches(p) == area \in Range(p.matched_areas)
    IN  IF area # "" THEN SelectSeq(papers, Matches) ELSE papers

\* lines 981-983
FilterSource(papers, source) ==
    LET Matches(p) == p.source = source
    IN  IF source # "" THEN SelectSeq(papers, Matches) ELSE papers

\* lines 986-989: p's key sorts strictly before q's under reverse=True
ComesBefore(sort, p, q) ==
    IF sort = "date" THEN p.published_date > q.published_date
    ELSE p.score > q.score

\* list.sort(key=..., reverse=True) is stable: equal keys keep their order
RECURSIVE HandlerSort(_, _)
HandlerSort(papers, sort) ==
    IF papers = <<>> THEN <<>>
    ELSE LET n == Len(papers)
             init == HandlerSort(SubSeq(papers, 1, n - 1), sort)
             p == papers[n]
             k == Cardinality({i \in 1..Len(init) : ~ComesBefore(sort, p, init[i])})
         IN  SubSeq(init, 1, k) \o <<p>> \o SubSeq(init, k + 1, Len(init))

\* lines 994-997: the condition of the first comprehension
InHighImpactBucket(p, config) ==
    /\ is_high_impact(p, config)
    /\ p.published_date >= Today - config.high_impact_lookback_days

\* the second comprehension with high_cutoff in place of other_cutoff
InOtherBucketHighCutoff(p, config, days) ==
    /\ ~is_high_impact(p, config)
    /\ p.published_date >= Today - config.high_impact_lookback_days

\* lines 998-1001: the condition of the second comprehension
InOtherBucket(p, config, days) ==
    /\ ~is_high_impact(p, config)
    /\ p.published_date >= Today - days

\* index(), lines 977-1001, once fetch_all_papers_for_days has returned to it:
\* the filters make new lists, the sort is in place on the list `papers` names
Render(r) ==
    /\ pc[r] = "done"
    /\ page[r] = None
    /\ \E q \in Queries :
          LET config == Configs[args[r].config]
              days == args[r].lookback_days
              returned == IF ident.ret[r] = ident.cache THEN cache.papers ELSE ret[r]
              filtered == FilterSource(FilterArea(returned, q.area), q.source)
              sorted_list == IF q.area # "" \/ q.source # ""
                                THEN <<r, "filtered">> ELSE ident.ret[r]
              papers == HandlerSort(filtered, q.sort)
              InHigh(p) == InHighImpactBucket(p, config)
              InOther(p) == InOtherBucket(p, config, days)
          IN  /\ page' = [page EXCEPT ![r] =
                            [area |-> q.area, source |-> q.source, sort |-> q.sort,
                             papers |-> papers,
                             high_impact_papers |-> SelectSeq(papers, InHigh),
                             other_papers |-> SelectSeq(papers, InOther),
                             returned_before |-> {o \in Requests : pc[o] = "done"}]]
              /\ cache' = IF sorted_list = ident.cache
                             THEN [cache EXCEPT !.papers = papers] ELSE cache
    /\ UNCHANGED <<clock, ticks, pc, args, now, tasks, completed, ret, hit, seen, writer,
                   ident, fn, windows>>

\* the requests of the third specification
PageRequests == 1..2

\* Two requests for "/" of a deployment whose config.yaml enables PubMed only.
NextPage ==
    \/ \E r \in PageRequests : Begin(r, {"pubmed"})
    \/ \E r \in PageRequests : Complete(r)
    \/ \E r \in PageRequests : Finish(r)
    \/ \E r \in PageRequests : Render(r)

SpecPage == Init /\ [][NextPage]_vars

\* the requests of the fourth specification
KeyRequests == 1..2

\* config.yaml as it is and after one of four edits that reorder it
Reorderings ==
    {"arxiv", "areas_swapped", "terms_swapped", "categories_swapped", "journals_swapped"}

\* Two calls of a deployment whose config.yaml is edited between them.
NextKeys ==
    \/ Tick
    \/ \E r \in KeyRequests : Begin(r, Reorderings)
    \/ \E r \in KeyRequests : Complete(r)
    \/ \E r \in KeyRequests : Finish(r)

SpecKeys == Init /\ [][NextKeys]_vars

\* ------------------------------------------------- pure functions under test
\* A second specification: Init draws the arguments of one pure function of
\* the module, and one step applies the function to them.

T_GutGut == <<"g","u","t"," ","G","U","T"," ","a","i">>

\* a term of the first area occurs twice in the title and twice in the abstract
PX1 == Paper(T_GutGut, T_GutGut, "x/1", 99, "arxiv", "arXiv")
\* matches in the abstract only
PX2 == Paper(T_Ab, T_GutAI, "x/2", 99, "arxiv", "arXiv")

ScorePapers == {PM1, PM1hi, PM2, BX2, BX3v2, BXnull, AX1, AX3, PX1, PX2}

\* config.yaml with scoring.title_multiplier 1.3 and weights 1.3 and 1.1
CfgFine ==
    [CfgArxiv EXCEPT !.title_multiplier = 13,
                     !.areas = << [AreasGutAi[1] EXCEPT !.weight = 13],
                                  [AreasGutAi[2] EXCEPT !.weight = 11] >>]

\* config.yaml with a negative scoring.title_multiplier (load_config takes any float)
CfgPenalty == [CfgArxiv EXCEPT !.title_multiplier = -20]

\* config.yaml with weight 0 for the first area
CfgMuted ==
    [CfgArxiv EXCEPT !.areas = << [AreasGutAi[1] EXCEPT !.weight = 0], AreasGutAi[2] >>]

ScoreConfigs == {CfgArxiv, CfgFine, CfgPenalty, CfgMuted}

\* terms a user may add to an area
MoreTerms == { <<"a","i">>, <<"G","U","T">>, <<"b","i","o">>, <<"a","b">>, <<"x">> }

\* config with term appended to the term list of its area number a
WithTerm(config, a, term) ==
    [config EXCEPT !.areas[a].terms = Append(@, term)]

JournalNames == DOMAIN Chars

\* the high_impact_journals lists of config.yaml: up to two names
JournalLists ==
    {<<>>} \cup {<<a>> : a \in JournalNames} \cup {<<a, b>> : a, b \in JournalNames}

\* ------------------------------------------------------------ author lists
\* an author element of a record: its name, or NoName when the record gives
\* none (PubMed: no LastName element or an empty one, as for a collective
\* author; arXiv: an author dict without "name")
NoName == <<>>

AuthorElements == { <<"L","i">>, <<"W","u">>, NoName }

\* the author elements of a record, in document order
AuthorLists == UNION { [1..n -> AuthorElements] : n \in 0..MaxAuthors }

\* sep.join(names)
RECURSIVE Join(_, _)
Join(sep, names) ==
    IF names = <<>> THEN <<>>
    ELSE IF Len(names) = 1 THEN names[1]
    ELSE names[1] \o sep \o Join(sep, Tail(names))

\* the truncation with >= in place of >
AuthorsStrSuffixAtFive(authors) ==
    Join(<<",", " ">>, SubSeq(authors, 1, IF Len(authors) < MaxDisplayed
                                             THEN Len(authors) ELSE MaxDisplayed))
    \o (IF Len(authors) >= MaxDisplayed THEN <<" ","e","t"," ","a","l",".">> ELSE <<>>)

\* lines 201-203 and 343-345: ", ".join(authors[:5]), then " et al." if
\* len(authors) > 5
AuthorsStr(authors) ==
    Join(<<",", " ">>, SubSeq(authors, 1, IF Len(authors) < MaxDisplayed
                                             THEN Len(authors) ELSE MaxDisplayed))
    \o (IF Len(authors) > MaxDisplayed THEN <<" ","e","t"," ","a","l",".">> ELSE <<>>)

\* lines 196-200: the LastName texts of the Author elements that have one
PubmedAuthors(elements) ==
    LET HasLastName(e) == e # NoName IN SelectSeq(elements, HasLastName)

\* line 342: a.get("name", "") of every author, "" for a missing name
ArxivAuthors(elements) == elements

\* ------------------------------------------------- the adapters' record loops
\* A record of a payload is named by its position (id) and by the one way in
\* which it is or is not well formed; the paper built from record i is named i.
PubmedArticleKinds == {"article", "no_title", "year_overflow"}

BiorxivItemKinds == {"item", "null_title", "bad_date", "not_object"}

ArxivEntryKinds == {"entry", "old_entry", "no_published"}

\* the payloads of at most MaxRecords records of the given kinds
RecordLists(kinds) ==
    UNION { { [i \in 1..n |-> [id |-> i, kind |-> f[i]]] : f \in [1..n -> kinds] } :
            n \in 0..MaxRecords }

\* lines 176-220: None without a title (line 188); date(y, m, d) of line 277
\* raises OverflowError, which line 278 does not catch, for a Year beyond the
\* range of a C int
_parse_pubmed_article(article) ==
    CASE article.kind = "article" -> "paper"
      [] article.kind = "no_title" -> "none"
      [] article.kind = "year_overflow" -> "raise"

\* lines 295-304: item.get of a non-object, .strip() of a null title and
\* date.fromisoformat of a malformed date raise
BiorxivPaper(item) ==
    CASE item.kind = "item" -> "paper"
      [] item.kind = "null_title" -> "raise"
      [] item.kind = "bad_date" -> "raise"
      [] item.kind = "not_object" -> "raise"

\* lines 335-355: datetime.fromisoformat("") raises for an entry without
\* published; an entry older than the cutoff is passed over at line 340
ArxivPaper(entry) ==
    CASE entry.kind = "entry" -> "paper"
      [] entry.kind = "old_entry" -> "continue"
      [] entry.kind = "no_published" -> "raise"

\* the loop inside one try: the first exception ends it
RECURSIVE RecordLoopOneTry(_, _)
RecordLoopOneTry(outcomes, papers) ==
    IF outcomes = <<>> THEN papers
    ELSE IF Head(outcomes)[2] = "raise" THEN papers
    ELSE RecordLoopOneTry(Tail(outcomes),
                          IF Head(outcomes)[2] = "paper"
                             THEN Append(papers, Head(outcomes)[1]) ELSE papers)

\* lines 130-136, 293-306, 333-357: each record in its own try; a paper is
\* appended, anything else (None, continue, an exception) goes to the next
\* record
RECURSIVE RecordLoop(_, _)
RecordLoop(outcomes, papers) ==
    IF outcomes = <<>> THEN papers
    ELSE RecordLoop(Tail(outcomes),
                    IF Head(outcomes)[2] = "paper"
                       THEN Append(papers, Head(outcomes)[1]) ELSE papers)

\* lines 130-136 of _fetch_pubmed_with_query
PubmedRecords(articles) ==
    RecordLoop([i \in 1..Len(articles) |->
                   <<articles[i].id, _parse_pubmed_article(articles[i])>>], <<>>)

\* data.get("collection", [])[:max_results]
Collection(collection, max_results) ==
    SubSeq(collection, 1, IF Len(collection) < max_results
                             THEN Len(collection) ELSE max_results)

\* lines 293-306 of fetch_biorxiv
BiorxivRecords(collection, max_results) ==
    LET items == Collection(collection, max_results)
    IN  RecordLoop([i \in 1..Len(items) |-> <<items[i].id, BiorxivPaper(items[i])>>], <<>>)

\* lines 333-357 of fetch_arxiv
ArxivRecords(entries) ==
    RecordLoop([i \in 1..Len(entries) |-> <<entries[i].id, ArxivPaper(entries[i])>>], <<>>)

\* config.max_results: the default, and a value below the payload's length
MaxResultsValues == {DefaultMaxResults, MaxRecords - 1}

Call(op, input) ==
    [op |-> op, input |-> input, output |-> <<>>, applied |-> FALSE, raised |-> FALSE]

FnInputs ==
    {Call("score_paper", <<p, c>>) : p \in ScorePapers, c \in ScoreConfigs}
    \cup {Call("score_paper_more_terms", <<p, c, a, t>>) :
             p \in ScorePapers \ {BXnull}, c \in ScoreConfigs, a \in {1, 2}, t \in MoreTerms}
    \cup {Call("is_high_impact", <<j, js>>) : j \in JournalNames, js \in JournalLists}
    \cup {Call("pubmed_authors", <<a>>) : a \in AuthorLists}
    \cup {Call("arxiv_authors", <<a>>) : a \in AuthorLists}
    \cup {Call("pubmed_records", <<x>>) : x \in RecordLists(PubmedArticleKinds)}
    \cup {Call("biorxiv_records", <<x, m>>) :
             x \in RecordLists(BiorxivItemKinds), m \in MaxResultsValues}
    \cup {Call("arxiv_records", <<x>>) : x \in RecordLists(ArxivEntryKinds)}

InitFn ==
    /\ InitService
    /\ fn \in FnInputs

ServiceUnchanged ==
    UNCHANGED <<clock, ticks, cache, pc, args, now, tasks, completed, ret, hit, seen,
                writer, ident, page, windows>>

\* score_paper(paper, config)
ApplyScorePaper ==
    /\ fn.op = "score_paper" /\ ~fn.applied
    /\ fn' = IF ScoreRaises(fn.input[1])
                THEN [fn EXCEPT !.applied = TRUE, !.raised = TRUE]
                ELSE [fn EXCEPT !.applied = TRUE,
                                !.output = score_paper(fn.input[1], fn.input[2])]
    /\ ServiceUnchanged

\* score_paper(paper, config).score for a config and for the same config with
\* one more term in one area
ApplyScorePaperMoreTerms ==
    /\ fn.op = "score_paper_more_terms" /\ ~fn.applied
    /\ LET paper == fn.input[1]
           config == fn.input[2]
           more == WithTerm(config, fn.input[3], fn.input[4])
       IN  fn' = [fn EXCEPT !.applied = TRUE,
                            !.output = [before |-> score_paper(paper, config).score,
                                        after |-> score_paper(paper, more).score]]
    /\ ServiceUnchanged

\* is_high_impact(paper, config) for a paper with the given journal
ApplyIsHighImpact ==
    /\ fn.op = "is_high_impact" /\ ~fn.applied
    /\ fn' = [fn EXCEPT !.applied = TRUE,
                        !.output = JournalIsHighImpact(fn.input[1], fn.input[2])]
    /\ ServiceUnchanged

\* lines 196-203: authors_str of _parse_pubmed_article
ApplyPubmedAuthors ==
    /\ fn.op = "pubmed_authors" /\ ~fn.applied
    /\ fn' = [fn EXCEPT !.applied = TRUE,
                        !.output = AuthorsStr(PubmedAuthors(fn.input[1]))]
    /\ ServiceUnchanged

\* lines 342-345: authors_str of fetch_arxiv
ApplyArxivAuthors ==
    /\ fn.op = "arxiv_authors" /\ ~fn.applied
    /\ fn' = [fn EXCEPT !.applied = TRUE,
                        !.output = AuthorsStr(ArxivAuthors(fn.input[1]))]
    /\ ServiceUnchanged

\* lines 130-136: the papers of one efetch payload
ApplyPubmedRecords ==
    /\ fn.op = "pubmed_records" /\ ~fn.applied
    /\ fn' = [fn EXCEPT !.applied = TRUE, !.output = PubmedRecords(fn.input[1])]
    /\ ServiceUnchanged

\* lines 293-306: the papers of one bioRxiv payload
ApplyBiorxivRecords ==
    /\ fn.op = "biorxiv_records" /\ ~fn.applied
    /\ fn' = [fn EXCEPT !.applied = TRUE,
                        !.output = BiorxivRecords(fn.input[1], fn.input[2])]
    /\ ServiceUnchanged

\* lines 333-357: the papers of one arXiv feed
ApplyArxivRecords ==
    /\ fn.op = "arxiv_records" /\ ~fn.applied
    /\ fn' = [fn EXCEPT !.applied = TRUE, !.output = ArxivRecords(fn.input[1])]
    /\ ServiceUnchanged

NextFn ==
    \/ ApplyScorePaper
    \/ ApplyScorePaperMoreTerms
    \/ ApplyIsHighImpact
    \/ ApplyPubmedAuthors
    \/ ApplyArxivAuthors
    \/ ApplyPubmedRecords
    \/ ApplyBiorxivRecords
    \/ ApplyArxivRecords

SpecFn == InitFn /\ [][NextFn]_vars

\* ------------------------------------------------------- claim vocabulary
Began(r) == pc[r] # "idle"

Done(r) == pc[r] = "done"

\* request r recomputed and returned at line 490
Recomputed(r) == pc[r] = "done" /\ ~hit[r]

\* request r ran the merge (lines 471-478): it recomputed, or raised after it
Merged(r) == pc[r] \in {"done", "error"} /\ ~hit[r]

ConfigOf(r) == Configs[args[r].config]

\* the list gather returned to request r
ResultsOf(r) == gather(Len(tasks[r]), completed[r])

\* every record the adapters of a request returned, in list order
RECURSIVE Flatten(_)
Flatten(results) ==
    IF results = <<>> THEN <<>>
    ELSE (IF IsList(Head(results)) THEN Head(results).papers ELSE <<>>)
         \o Flatten(Tail(results))

\* the position of the first record with url u
FirstWithUrl(all, u) ==
    CHOOSE i \in 1..Len(all) : all[i].url = u /\ \A j \in 1..(i - 1) : all[j].url # u

\* a paper as the adapter returned it
Unscored(p) == [p EXCEPT !.score = 0, !.matched_areas = <<>>]

InitialCache == [timestamp |-> 0, key |-> None, papers |-> None]

\* --------------------------------------------------------------------- C1
\* C1 as stated: of any two calls with equal keys, the later one issued less
\* than 300 seconds after the earlier one, the later one returns what the
\* earlier one returned and launches no adapter.
C1_AnyTwoCallsWithinTtl ==
    \A r1, r2 \in Requests :
        (r1 < r2 /\ Done(r1) /\ Done(r2)
         /\ cache_key(r1) = cache_key(r2)
         /\ now[r2] - now[r1] < CACHE_TTL_SECONDS)
        => (ret[r2] = ret[r1] /\ tasks[r2] = <<>>)

\* C1 amended: when the second call begins after the first call's recompute
\* was stored and before any other recompute overwrote it, with an equal key
\* and less than 300 seconds after the first call's clock reading, then the
\* second call is served from the cache: it returns the sequence the first
\* returned and launches no adapter.
C1_SecondCallServedFromCache ==
    \A r1, r2 \in Requests :
        (Began(r2) /\ seen[r2] = r1
         /\ cache_key(r1) = cache_key(r2)
         /\ now[r2] - now[r1] < CACHE_TTL_SECONDS)
        => (hit[r2] /\ Done(r2) /\ ret[r2] = ret[r1] /\ tasks[r2] = <<>>
            /\ completed[r2] = <<>>)

C1_Witness ==
    \E r1, r2 \in Requests :
        /\ seen[r2] = r1 /\ hit[r2] /\ ~hit[r1]
        /\ now[r2] - now[r1] = CACHE_TTL_SECONDS - 1
        /\ tasks[r1] # <<>> /\ ret[r2] # <<>> /\ ret[r2] = ret[r1]

\* --------------------------------------------------------------------- C2
\* C2: a call that finds its own key in the slot at an age of 300 seconds or
\* more is a miss: it launches the adapters of its config, and its recompute
\* replaces the slot with its key, its timestamp and its papers.
C2_ExpiredEntryIsMiss ==
    \A r, q \in Requests :
        (Began(r) /\ seen[r] = q
         /\ cache_key(q) = cache_key(r)
         /\ now[r] - now[q] >= CACHE_TTL_SECONDS)
        => /\ ~hit[r]
           /\ tasks[r] = Tasks(ConfigOf(r))
           /\ Done(r) => writer.key # q
           /\ (Done(r) /\ writer.key = r) =>
                 cache = [timestamp |-> now[r], key |-> cache_key(r), papers |-> ret[r]]

C2_Witness ==
    \E r, q \in Requests :
        /\ seen[r] = q /\ cache_key(q) = cache_key(r)
        /\ now[r] - now[q] = CACHE_TTL_SECONDS
        /\ Recomputed(r) /\ tasks[r] # <<>> /\ writer.key = r
        /\ cache.timestamp = now[r] /\ cache.papers # ret[q]

\* --------------------------------------------------------------------- C3
\* C3: the cache has one slot.  When calls with keys K1, K2, K1 (K1 # K2) run
\* one after the other, starting from the empty cache, each of the three is a
\* miss and launches the adapters of its config.
C3_SingleSlot ==
    \A r1, r2, r3 \in Requests :
        (Began(r1) /\ Began(r3)
         /\ seen[r1] = 0 /\ seen[r2] = r1 /\ seen[r3] = r2
         /\ cache_key(r1) = cache_key(r3) /\ cache_key(r1) # cache_key(r2))
        => \A r \in {r1, r2, r3} : ~hit[r] /\ tasks[r] = Tasks(ConfigOf(r))

C3_Witness ==
    \E r1, r2, r3 \in Requests :
        /\ seen[r1] = 0 /\ seen[r2] = r1 /\ seen[r3] = r2
        /\ cache_key(r1) = cache_key(r3) /\ cache_key(r1) # cache_key(r2)
        /\ now[r3] - now[r1] < CACHE_TTL_SECONDS
        /\ \A r \in {r1, r2, r3} : Recomputed(r) /\ tasks[r] # <<>>

\* --------------------------------------------------------------------- C4
\* C4: two distinct records of the adapter outputs that both have an empty
\* url are both in the merged list, as separate entries.
C4_EmptyUrlNeverDeduplicated ==
    \A r \in Requests :
        Merged(r) =>
            LET all == Flatten(ResultsOf(r))
                merged == Merge(ResultsOf(r))
            IN  \A i, j \in 1..Len(all) :
                    (i < j /\ all[i].url = "" /\ all[j].url = "" /\ all[i] # all[j])
                    => \E a, b \in 1..Len(merged) :
                          a # b /\ merged[a] = all[i] /\ merged[b] = all[j]

\* --------------------------------------------------------------------- C5
\* C5: the merged list has no two papers with the same non-empty url, and for
\* every non-empty url of the adapter outputs it holds exactly the first
\* record with that url, in the order the merge iterates; the returned papers
\* are such first records.
C5_FirstSeenUrlKept ==
    \A r \in Requests :
        Merged(r) =>
            LET all == Flatten(ResultsOf(r))
                merged == Merge(ResultsOf(r))
            IN  /\ \A a, b \in 1..Len(merged) :
                      (a # b /\ merged[a].url # "") => merged[a].url # merged[b].url
                /\ \A i \in 1..Len(all) :
                      all[i].url # "" =>
                         /\ Cardinality({a \in 1..Len(merged) : merged[a].url = all[i].url}) = 1
                         /\ \E a \in 1..Len(merged) :
                               merged[a] = all[FirstWithUrl(all, all[i].url)]
                /\ \A k \in 1..Len(ret[r]) :
                      /\ ret[r][k].url # ""
                      /\ Unscored(ret[r][k]) = all[FirstWithUrl(all, ret[r][k].url)]
                      /\ \A l \in 1..Len(ret[r]) : l # k => ret[r][l].url # ret[r][k].url

C5_Witness ==
    \E r \in Requests :
        /\ Recomputed(r)
        /\ \E i, j \in 1..Len(Flatten(ResultsOf(r))) :
              LET all == Flatten(ResultsOf(r))
              IN  /\ i < j /\ all[i].url = all[j].url /\ all[i].url # "" /\ all[i] # all[j]
                  /\ \E k \in 1..Len(ret[r]) : Unscored(ret[r][k]) = all[i]

\* --------------------------------------------------------------------- C6
\* the results of request r put in the declared order of the adapters
RECURSIVE InDeclaredOrder(_, _)
InDeclaredOrder(adapters, r) ==
    IF adapters = <<>> THEN <<>>
    ELSE LET ks == {k \in 1..Len(completed[r]) :
                        tasks[r][completed[r][k][1]] = Head(adapters)}
         IN  (IF ks = {} THEN <<>> ELSE <<completed[r][CHOOSE k \in ks : TRUE][2]>>)
             \o InDeclaredOrder(Tail(adapters), r)

\* C6: whatever the order in which the adapter tasks completed, the outcome
\* of the request is the one obtained by merging the results in the declared
\* order PubMed, PubMed-high-impact, bioRxiv, arXiv.
C6_MergeInDeclaredOrder ==
    \A r \in Requests :
        Merged(r) =>
            LET declared == InDeclaredOrder(Adapters, r)
            IN  /\ Merge(ResultsOf(r)) = Merge(declared)
                /\ pc[r] = "error" <=> PipelineRaises(declared)
                /\ pc[r] = "done" => ret[r] = Pipeline(declared, ConfigOf(r))

\* the high-impact PubMed task completed before the PubMed task, both returned
\* a copy of the same url, and the PubMed copy is the one returned
C6_Witness ==
    \E r \in Requests :
        /\ Recomputed(r)
        /\ \E k1, k2 \in 1..Len(completed[r]) :
              /\ k1 < k2
              /\ tasks[r][completed[r][k1][1]] = "pubmed_high_impact"
              /\ tasks[r][completed[r][k2][1]] = "pubmed"
              /\ completed[r][k1][2] = ListResult(PubmedHiFeed)
              /\ completed[r][k2][2] = ListResult(PubmedFeed)
        /\ \E k \in 1..Len(ret[r]) : Unscored(ret[r][k]) = PM1

\* --------------------------------------------------------------------- C7
\* the results with every exception replaced by an empty list
FailedAsEmpty(results) ==
    [i \in 1..Len(results) |->
        IF IsList(results[i]) THEN results[i] ELSE ListResult(<<>>)]

\* C7: the outcome of a request some of whose adapters failed is the outcome
\* it would have had those adapters returned an empty list: a failed adapter
\* contributes nothing and takes nothing away from the others.
C7_FailureIsolation ==
    \A r \in Requests :
        Merged(r) =>
            LET as_empty == FailedAsEmpty(ResultsOf(r))
            IN  /\ Merge(ResultsOf(r)) = Merge(as_empty)
                /\ pc[r] = "error" <=> PipelineRaises(as_empty)
                /\ pc[r] = "done" => ret[r] = Pipeline(as_empty, ConfigOf(r))

\* the first task raised and the paper of a later task is returned
C7_Witness ==
    \E r \in Requests :
        /\ Recomputed(r)
        /\ Len(tasks[r]) = Len(Adapters)
        /\ ~IsList(ResultsOf(r)[1])
        /\ ResultsOf(r)[Len(tasks[r])] = ListResult(ArxivFeed)
        /\ \E k \in 1..Len(ret[r]) : Unscored(ret[r][k]) = AX1

\* --------------------------------------------------------------------- C8
\* C8: a request that has left the gather (it returned from a recompute, or
\* raised) has a result for every task it launched, each exactly once: the
\* merge never starts while a task is running, and no task is dropped because
\* another failed.
C8_WaitForAll ==
    \A r \in Requests :
        (pc[r] \in {"done", "error"} /\ ~hit[r]) =>
            /\ Ended(completed[r]) = 1..Len(tasks[r])
            /\ Len(completed[r]) = Len(tasks[r])
            /\ tasks[r] = Tasks(ConfigOf(r))

\* a task raised first, the three others ended after it, then the merge ran
C8_Witness ==
    \E r \in Requests :
        /\ Recomputed(r)
        /\ Len(completed[r]) = Len(Adapters)
        /\ ~IsList(completed[r][1][2])
        /\ \A k \in 2..Len(completed[r]) :
              IsList(completed[r][k][2]) /\ completed[r][k][2].papers # <<>>
        /\ ret[r] # <<>>

\* --------------------------------------------------------------------- C9
\* C9: fetch_all_papers_for_days never raises to its caller: whatever the
\* adapters did, it returns a list.
C9_NeverRaisesToCaller ==
    \A r \in Requests : pc[r] # "error"

\* -------------------------------------------------------------------- C10
\* C10: the three fields of the cache slot always come from one request, and
\* they are that request's clock reading, key and result.
C10_SlotNeverTears ==
    /\ writer.timestamp = writer.key
    /\ writer.papers = writer.key
    /\ writer.key = 0 => cache = InitialCache
    /\ \A r \in Requests :
          writer.key = r =>
             /\ Recomputed(r)
             /\ cache = [timestamp |-> now[r], key |-> cache_key(r), papers |-> ret[r]]
             /\ ret[r] = Pipeline(ResultsOf(r), ConfigOf(r))

\* two requests with different keys both missed, overlapped, and the one
\* issued first wrote last
C10_Witness ==
    \E r1, r2 \in Requests :
        /\ r1 < r2 /\ Recomputed(r1) /\ Recomputed(r2)
        /\ seen[r1] = 0 /\ seen[r2] = 0
        /\ cache_key(r1) # cache_key(r2) /\ ret[r1] # ret[r2]
        /\ writer.key = r1 /\ cache.key = cache_key(r1) /\ cache.papers = ret[r1]

\* ---------------------------------------------------------------- C11
\* C11: every paper a call returns, on a recompute and on a hit alike, and
\* every paper the cache slot holds has a score strictly above zero.
C11_OnlyRelevantSurvive ==
    /\ \A r \in Requests :
          Done(r) => \A k \in 1..Len(ret[r]) : ret[r][k].score > 0
    /\ \A k \in 1..Len(cache.papers) : cache.papers[k].score > 0

\* a recompute merged a paper that scores zero and returned others; a later
\* call was served that snapshot from the cache
C11_Witness ==
    \E q, r \in Requests :
        /\ Recomputed(q) /\ ret[q] # <<>>
        /\ \E i \in 1..Len(Merge(ResultsOf(q))) :
              score_paper(Merge(ResultsOf(q))[i], ConfigOf(q)).score = 0
        /\ Done(r) /\ hit[r] /\ ret[r] = ret[q] /\ cache.papers = ret[q]

\* ---------------------------------------------------------------- C12
\* p.score > q.score, or the scores are equal and p's date is not later, for
\* every two adjacent papers p before q
InOrder(papers) ==
    \A k \in 1..(Len(papers) - 1) :
        \/ papers[k].score > papers[k + 1].score
        \/ /\ papers[k].score = papers[k + 1].score
           /\ papers[k].published_date <= papers[k + 1].published_date

\* C12: the returned sequence and the stored sequence are ordered by score
\* descending, ties by published date ascending: of two adjacent papers p
\* before q, p.score > q.score, or the scores are equal and
\* p.published_date <= q.published_date.
C12_SortedByScoreThenDate ==
    /\ \A r \in Requests : Done(r) => InOrder(ret[r])
    /\ InOrder(cache.papers)

\* the merge order was not the sorted order: the returned list has a tie
\* that the date decides against the merge order and a strict score step,
\* and a later call was served it from the cache
C12_Witness ==
    \E q, r \in Requests :
        /\ Recomputed(q)
        /\ \E k \in 1..(Len(ret[q]) - 1) :
              /\ ret[q][k].score = ret[q][k + 1].score
              /\ ret[q][k].published_date < ret[q][k + 1].published_date
              /\ \E i, j \in 1..Len(Merge(ResultsOf(q))) :
                    /\ i < j
                    /\ Merge(ResultsOf(q))[i].url = ret[q][k + 1].url
                    /\ Merge(ResultsOf(q))[j].url = ret[q][k].url
        /\ \E k \in 1..(Len(ret[q]) - 1) : ret[q][k].score > ret[q][k + 1].score
        /\ Done(r) /\ hit[r] /\ ret[r] = ret[q] /\ cache.papers = ret[q]

\* ---------------------------------------------------------------- C13
RECURSIVE SumSeq(_)
SumSeq(ns) == IF ns = <<>> THEN 0 ELSE Head(ns) + SumSeq(Tail(ns))

\* the local score of an area as C13 states it, in tenths: every term adds
\* title_multiplier if it occurs in the title plus 1.0 if it occurs in the
\* abstract, all lower-cased, whatever the number of occurrences
LocalScore(area, paper, config) ==
    SumSeq([i \in 1..Len(area.terms) |->
              (IF Contains(Lower(paper.title), Lower(area.terms[i]))
                  THEN config.title_multiplier ELSE 0)
              + (IF Contains(Lower(paper.abstract), Lower(area.terms[i]))
                    THEN 10 ELSE 0)])

\* C13: score_paper gives each area a local score (per term title_multiplier
\* for presence in the title plus 1.0 for presence in the abstract), appends
\* the area to matched_areas exactly when the local score is above zero, in
\* the order of the areas, and sets score to the sum over those areas of
\* local score times weight, rounded to one decimal (the nearest tenth).
C13_ScoreAsStated ==
    (fn.op = "score_paper" /\ fn.applied /\ ~fn.raised) =>
        LET paper == fn.input[1]
            config == fn.input[2]
            IsMatched(area) == LocalScore(area, paper, config) > 0
            those == SelectSeq(config.areas, IsMatched)
            total == SumSeq([i \in 1..Len(those) |->
                               LocalScore(those[i], paper, config) * those[i].weight])
        IN  /\ fn.output.matched_areas = [i \in 1..Len(those) |-> those[i].name]
            /\ 10 * fn.output.score - total \in -5..5
            /\ fn.output = [paper EXCEPT !.matched_areas = fn.output.matched_areas,
                                         !.score = fn.output.score]

\* a paper with a term twice in the title and twice in the abstract was
\* scored under two areas with a total (5.52) that is not a whole tenth
C13_Witness ==
    /\ fn.op = "score_paper" /\ fn.applied /\ ~fn.raised
    /\ fn.input = <<PX1, CfgFine>>
    /\ fn.output.matched_areas = <<"gut", "ai">>
    /\ fn.output.score = 55
    /\ (13 + 10) * 13 + (13 + 10) * 11 = 552

\* ---------------------------------------------------------------- C14
\* the term is new to the area and occurs in the title or the abstract
AddsMatchingTerm ==
    /\ fn.op = "score_paper_more_terms" /\ fn.applied
    /\ LET paper == fn.input[1]
           area == fn.input[2].areas[fn.input[3]]
           term == fn.input[4]
       IN  /\ term \notin Range(area.terms)
           /\ \/ Contains(Lower(paper.title), Lower(term))
              \/ Contains(Lower(paper.abstract), Lower(term))

\* C14 as stated: for any paper and any configuration, adding to one area's
\* term list a term that was not in it and that matches the paper never
\* decreases the paper's score.
C14_AnyConfigMonotone ==
    AddsMatchingTerm => fn.output.after >= fn.output.before

\* C14, amended: the same for any configuration whose title multiplier is not
\* negative (area weights are non-negative by the data model).
C14_MonotoneForNonNegativeMultiplier ==
    (/\ AddsMatchingTerm
     /\ fn.input[2].title_multiplier >= 0
     /\ \A i \in 1..Len(fn.input[2].areas) : fn.input[2].areas[i].weight >= 0)
        => fn.output.after >= fn.output.before

\* a matching new term was added to an area that already had a matching
\* term, and the score went up
C14_Witness ==
    /\ AddsMatchingTerm
    /\ fn.input[2].title_multiplier >= 0
    /\ AreaScore(fn.input[2].areas[fn.input[3]].terms, Lower(fn.input[1].title),
                 Lower(fn.input[1].abstract), fn.input[2].title_multiplier) > 0
    /\ fn.output.after > fn.output.before /\ fn.output.before > 0

\* ---------------------------------------------------------------- C15
\* the alias table as C15 gives it: "PNAS" and "Proc Natl Acad Sci USA"
AliasPairs == { <<_normalize_journal("PNAS"), _normalize_journal("Proc Natl Acad Sci USA")>> }

\* equal, or either a substring of the other, or aliases in either orientation
Related(a, b) ==
    \/ a = b
    \/ Contains(a, b)
    \/ Contains(b, a)
    \/ <<a, b>> \in AliasPairs
    \/ <<b, a>> \in AliasPairs

\* C15 as stated: is_high_impact is true exactly when the paper's journal is
\* non-empty and, for some configured journal, the two names lower-cased and
\* stripped of non-alphanumeric characters are equal, or either is a
\* substring of the other, or the alias table maps one to the other.
C15_HighImpactAsStated ==
    (fn.op = "is_high_impact" /\ fn.applied) =>
        (fn.output <=>
            /\ fn.input[1] # ""
            /\ \E i \in 1..Len(fn.input[2]) :
                  Related(_normalize_journal(fn.input[1]), _normalize_journal(fn.input[2][i])))

\* C15, amended: the same with both normalised names non-empty, that is: true
\* exactly when the paper's journal has an alphanumeric character and some
\* configured journal that has one is related to it.  A paper with an empty
\* journal string is never high-impact.
C15_HighImpactOfNonEmptyNames ==
    (fn.op = "is_high_impact" /\ fn.applied) =>
        /\ fn.output <=>
              /\ _normalize_journal(fn.input[1]) # <<>>
              /\ \E i \in 1..Len(fn.input[2]) :
                    /\ _normalize_journal(fn.input[2][i]) # <<>>
                    /\ Related(_normalize_journal(fn.input[1]),
                               _normalize_journal(fn.input[2][i]))
        /\ fn.input[1] = "" => ~fn.output

\* the journal "PNAS" was found high-impact by the alias of the second
\* configured name, the first one having no alphanumeric character
C15_Witness ==
    /\ fn.op = "is_high_impact" /\ fn.applied
    /\ fn.input = << "PNAS", << "-", "Proc Natl Acad Sci USA" >> >>
    /\ fn.output

\* ---------------------------------------------------------------- C16
Rendered(r) == page[r] # None

InSeq(p, papers) == \E k \in 1..Len(papers) : papers[k] = p

\* the papers of the snapshot that the request's area and source filters let
\* through: the list the handler partitions
Partitioned(r) ==
    {p \in Range(ret[r]) :
        /\ page[r].area = "" \/ page[r].area \in Range(p.matched_areas)
        /\ page[r].source = "" \/ p.source = page[r].source}

FollowsWithinTtl(q, r) ==
    /\ Recomputed(q) /\ Began(r) /\ seen[r] = q
    /\ now[r] - now[q] < CACHE_TTL_SECONDS
    /\ args[r].lookback_days = args[q].lookback_days
    /\ args[r].high_impact_days = args[q].high_impact_days

\* a is b in another order (neither has a repeated element)
Reordered(a, b) == Len(a) = Len(b) /\ Range(a) = Range(b) /\ a # b

\* the two configs are the same but for the order of the areas
SameButAreaOrder(c, d) ==
    /\ [Configs[c] EXCEPT !.areas = Configs[d].areas] = Configs[d]
    /\ Reordered(Configs[c].areas, Configs[d].areas)

\* the two configs are the same but for the order of the terms of one area,
\* of the arXiv categories, or of the high-impact journals
SameButInnerOrder(c, d) ==
    \/ /\ [Configs[c] EXCEPT !.areas = Configs[d].areas] = Configs[d]
       /\ \E i \in 1..Len(Configs[c].areas) :
             /\ [Configs[c].areas EXCEPT ![i].terms = Configs[d].areas[i].terms]
                    = Configs[d].areas
             /\ Reordered(Configs[c].areas[i].terms, Configs[d].areas[i].terms)
    \/ /\ [Configs[c] EXCEPT !.arxiv_categories = Configs[d].arxiv_categories] = Configs[d]
       /\ Reordered(Configs[c].arxiv_categories, Configs[d].arxiv_categories)
    \/ /\ [Configs[c] EXCEPT !.high_impact_journals = Configs[d].high_impact_journals]
             = Configs[d]
       /\ Reordered(Configs[c].high_impact_journals, Configs[d].high_impact_journals)

\* C17: configs with the same areas in a different area order have equal
\* cache keys and the second call within the TTL is a hit; configs that
\* differ in the order of the terms of an area, of the arXiv categories or of
\* the high-impact journals have different keys and the second call is a
\* miss.
C17_KeyIsStructural ==
    \A q, r \in Requests : FollowsWithinTtl(q, r) =>
        /\ SameButAreaOrder(args[q].config, args[r].config) =>
              /\ cache_key(q) = cache_key(r)
              /\ Done(r) /\ hit[r] /\ tasks[r] = <<>>
        /\ SameButInnerOrder(args[q].config, args[r].config) =>
              /\ cache_key(q) # cache_key(r)
              /\ ~hit[r] /\ tasks[r] = Tasks(ConfigOf(r))

\* after a recompute, a call under the same config with the areas swapped
\* was a hit
C17_Witness ==
    \E q, r \in Requests :
        /\ FollowsWithinTtl(q, r) /\ now[r] > now[q]
        /\ SameButAreaOrder(args[q].config, args[r].config)
        /\ hit[r] /\ ret[r] = ret[q] /\ ret[r] # <<>>

\* after a recompute, a call under the same config with two terms swapped
\* was a miss
C17_WitnessMiss ==
    \E q, r \in Requests :
        /\ FollowsWithinTtl(q, r)
        /\ SameButInnerOrder(args[q].config, args[r].config)
        /\ Recomputed(r)

\* ---------------------------------------------------------------- C18
\* C18: two inputs with equal cache keys give, for the same adapter
\* responses, the same output, scores and matched_areas order included; so
\* what a hit returns is what a recompute under the requesting config would
\* have returned for the responses the cached snapshot was computed from.
C18_KeyCoversEveryInput ==
    /\ \A q, r \in Requests :
          (Recomputed(q) /\ Recomputed(r) /\ cache_key(q) = cache_key(r)
           /\ ResultsOf(q) = ResultsOf(r)) => ret[q] = ret[r]
    /\ \A r \in Requests :
          (Done(r) /\ hit[r]) =>
              ret[r] = Pipeline(ResultsOf(seen[r]), ConfigOf(r))

\* ---------------------------------------------------------------- C19
\* C19: what the index handler does to the list it was returned, filtering
\* it and sorting it in place, never changes the order or the membership of
\* the snapshot in the cache: the slot holds the papers in the base order its
\* writer computed, and every hit returns them in that order.
C19_CachedBaseOrderKept ==
    /\ writer.papers # 0 =>
          cache.papers = Pipeline(ResultsOf(writer.papers), ConfigOf(writer.papers))
    /\ \A r \in Requests :
          (Done(r) /\ hit[r]) =>
              ret[r] = Pipeline(ResultsOf(seen[r]), ConfigOf(seen[r]))

\* the request that filled the slot had its list sorted in place by date,
\* which changed the order; a request that returned after that was a hit and
\* got the base order; its own list was then sorted by date as well
C19_Witness ==
    \E w, r \in Requests :
        /\ Recomputed(w) /\ writer.papers = w /\ Rendered(w)
        /\ page[w].area = "" /\ page[w].source = "" /\ page[w].sort = "date"
        /\ page[w].papers # ret[w] /\ Len(page[w].papers) = Len(ret[w])
        /\ Done(r) /\ hit[r] /\ seen[r] = w /\ r \notin page[w].returned_before
        /\ ret[r] = ret[w] /\ cache.papers = ret[w]
        /\ Rendered(r) /\ page[r].papers = page[w].papers

\* ---------------------------------------------------------------- C20
\* C20: the merge applied to its own output, handed to it as one adapter
\* result, yields the papers it yielded the first time (the same set, and
\* the same sequence).
C20_MergeIdempotent ==
    \A r \in Requests : Merged(r) =>
        LET once == Merge(ResultsOf(r))
            twice == Merge(<<ListResult(once)>>)
        IN  Range(twice) = Range(once) /\ twice = once

\* the merge of a request dropped a record whose url an earlier adapter had
\* returned and a record whose url came earlier in the same list, and kept
\* papers from three adapters
C20_Witness ==
    \E r \in Requests :
        /\ Merged(r)
        /\ LET results == ResultsOf(r)
               once == Merge(results)
           IN  /\ \E i, j \in 1..Len(results) : \E m \in 1..Len(results[j].papers) :
                     /\ i < j
                     /\ results[j].papers[m].url # ""
                     /\ results[j].papers[m].url \in {p.url : p \in Range(results[i].papers)}
               /\ \E j \in 1..Len(results) : \E m, n \in 1..Len(results[j].papers) :
                     /\ m < n
                     /\ results[j].papers[m].url # ""
                     /\ results[j].papers[m].url = results[j].papers[n].url
               /\ Cardinality({p.source : p \in Range(once)}) = 3
               /\ Merge(<<ListResult(once)>>) = once

\* ---------------------------------------------------------------- C21
\* the pieces one after the other
RECURSIVE Concat(_)
Concat(pieces) == IF pieces = <<>> THEN <<>> ELSE Head(pieces) \o Concat(Tail(pieces))

\* the first min(n, 5) names with ", " between two of them, followed by
\* " et al." exactly when n > 5
Displayed(names) ==
    LET n == Len(names)
        k == IF n <= 5 THEN n ELSE 5
        pieces == [i \in 1..(IF k = 0 THEN 0 ELSE 2 * k - 1) |->
                     IF i % 2 = 1 THEN names[(i + 1) \div 2] ELSE <<",", " ">>]
    IN  Concat(pieces) \o (IF n > 5 THEN <<" ","e","t"," ","a","l",".">> ELSE <<>>)

\* the names an adapter takes from the author elements, in document order:
\* PubMed the surnames of the elements that have one, arXiv every name
NamesTaken ==
    IF fn.op = "pubmed_authors"
       THEN [i \in 1..Cardinality({j \in DOMAIN fn.input[1] : fn.input[1][j] # NoName}) |->
               fn.input[1][CHOOSE j \in DOMAIN fn.input[1] :
                   /\ fn.input[1][j] # NoName
                   /\ Cardinality({h \in 1..j : fn.input[1][h] # NoName}) = i]]
       ELSE fn.input[1]

\* C21: for an author list of n names in document order the display string
\* is the first min(n, 5) names joined by ", ", followed by " et al."
\* exactly when n > 5; the PubMed and the arXiv adapter apply the same rule.
C21_AuthorTruncation ==
    (fn.op \in {"pubmed_authors", "arxiv_authors"} /\ fn.applied) =>
        fn.output = Displayed(NamesTaken)

\* PubMed: seven surnames gave five names and the suffix
C21_Witness ==
    /\ fn.op = "pubmed_authors" /\ fn.applied
    /\ Len(NamesTaken) = 7 /\ NoName \notin Range(fn.input[1])
    /\ fn.output = Concat(<< NamesTaken[1], <<",", " ">>, NamesTaken[2], <<",", " ">>,
                             NamesTaken[3], <<",", " ">>, NamesTaken[4], <<",", " ">>,
                             NamesTaken[5], <<" ","e","t"," ","a","l",".">> >>)

\* arXiv: three names gave all three and no suffix
C21_WitnessThree ==
    /\ fn.op = "arxiv_authors" /\ fn.applied
    /\ Len(fn.input[1]) = 3 /\ NoName \notin Range(fn.input[1])
    /\ fn.output = fn.input[1][1] \o <<",", " ">> \o fn.input[1][2] \o <<",", " ">>
                      \o fn.input[1][3]

\* ---------------------------------------------------------------- C22
\* the config switch of the source an adapter reads
Enabled(adapter, config) ==
    IF adapter = "pubmed" THEN config.pubmed_enabled
    ELSE IF adapter = "pubmed_high_impact"
            THEN config.pubmed_enabled /\ config.high_impact_journals # <<>>
    ELSE IF adapter = "biorxiv" THEN config.biorxiv_enabled
    ELSE config.arxiv_enabled

\* C22: on a miss an adapter is launched iff its source is enabled (the
\* PubMed high-impact search iff PubMed is enabled and the journal list is
\* not empty), once, the high-impact search with the high-impact window and
\* the others with the general lookback; a source that is not enabled is
\* never called, no result of it is awaited and no paper of it is output.
C22_LaunchedIffEnabled ==
    \A r \in Requests : (Began(r) /\ ~hit[r]) =>
        /\ \A a \in Range(Adapters) : a \in Range(tasks[r]) <=> Enabled(a, ConfigOf(r))
        /\ Cardinality(Range(tasks[r])) = Len(tasks[r])
        /\ Len(windows[r]) = Len(tasks[r])
        /\ \A i \in 1..Len(tasks[r]) :
              windows[r][i] = IF tasks[r][i] = "pubmed_high_impact"
                                 THEN args[r].high_impact_days
                                 ELSE args[r].lookback_days
        /\ \A k \in 1..Len(completed[r]) :
              Enabled(tasks[r][completed[r][k][1]], ConfigOf(r))
        /\ Done(r) => \A k \in 1..Len(ret[r]) :
              /\ ret[r][k].source = "pubmed" => ConfigOf(r).pubmed_enabled
              /\ ret[r][k].source = "biorxiv" => ConfigOf(r).biorxiv_enabled
              /\ ret[r][k].source = "arxiv" => ConfigOf(r).arxiv_enabled

\* with PubMed disabled and a journal list configured, bioRxiv and arXiv
\* were launched alone and both have papers in the output
C22_Witness ==
    \E r \in Requests :
        /\ Recomputed(r)
        /\ ~ConfigOf(r).pubmed_enabled /\ ConfigOf(r).high_impact_journals # <<>>
        /\ tasks[r] = <<"biorxiv", "arxiv">>
        /\ windows[r] = <<args[r].lookback_days, args[r].lookback_days>>
        /\ {ret[r][k].source : k \in 1..Len(ret[r])} = {"biorxiv", "arxiv"}

\* with every source enabled the high-impact search alone was given the
\* high-impact window
C22_WitnessWindows ==
    \E r \in Requests :
        /\ Recomputed(r) /\ tasks[r] = Adapters
        /\ windows[r] = <<14, 90, 14, 14>>

\* with PubMed enabled and no journal configured the keyword search was
\* launched alone
C22_WitnessNoJournals ==
    \E r \in Requests :
        /\ Recomputed(r) /\ ConfigOf(r).high_impact_journals = <<>>
        /\ tasks[r] = <<"pubmed">> /\ ret[r] # <<>>

\* ---------------------------------------------------------------- C23
\* the steps of a request along the two paths: from the key to the hit and
\* done, or from the key to fetching and from there, by the merge, the
\* scoring, the sort and the cache write, to done
OnTwoPaths(r) ==
    \/ pc'[r] = pc[r]
    \/ pc[r] = "idle" /\ pc'[r] = "done" /\ hit'[r] /\ cache' = cache
    \/ pc[r] = "idle" /\ pc'[r] = "fetching" /\ cache' = cache
    \/ /\ pc[r] = "fetching" /\ pc'[r] = "done" /\ ~hit'[r]
       /\ ret'[r] = Pipeline(ResultsOf(r), ConfigOf(r))
       /\ cache'.papers = ret'[r] /\ writer'.papers = r

\* C23: every request follows one of two paths, key then hit then done, or
\* key, fetching, merging, scoring, sorting, cache write, done; on the miss
\* path the slot is written once, after the sort and before the return; and
\* if every launched adapter call ends, every request reaches done.
C23_TwoPathsToDone ==
    /\ [][\A r \in Requests : OnTwoPaths(r)]_vars
    /\ [][cache' # cache => \E r \in Requests : pc[r] = "fetching" /\ pc'[r] = "done"]_vars
    /\ \A r \in Requests : (pc[r] = "fetching") ~> (pc[r] = "done")

\* ---------------------------------------------------------------- C24
\* request r was served, at an age below the time to live, the entry that
\* the recompute of request q created
ServedFrom(q, r) ==
    /\ Done(r) /\ hit[r] /\ seen[r] = q /\ Recomputed(q)
    /\ now[r] - now[q] < CACHE_TTL_SECONDS

\* C24: a cache hit leaves the slot as it was (timestamp, key and papers), so
\* the stored timestamp is always that of the recompute that wrote the entry
\* and no call is served from an entry 300 seconds or more after that
\* timestamp, however many hits came in between.
C24_HitLeavesSlotUnchanged ==
    /\ [][\A r \in Requests : (pc[r] = "idle" /\ pc'[r] = "done") => cache' = cache]_vars
    /\ [](writer.timestamp # 0 => cache.timestamp = now[writer.timestamp])
    /\ [](\A r \in Requests : (Done(r) /\ hit[r]) => ServedFrom(seen[r], r))

\* an entry was served to a hit and, 300 seconds after the recompute that
\* wrote it, the next call with the same key is a miss
C24_Witness ==
    \E q, r, s \in Requests :
        /\ ServedFrom(q, r) /\ now[r] > now[q]
        /\ Began(s) /\ ~hit[s] /\ seen[s] = q /\ cache_key(s) = cache_key(q)
        /\ now[s] > now[r] /\ now[s] - now[q] = CACHE_TTL_SECONDS

\* ---------------------------------------------------------------- C25
\* the records the adapter call of fn iterates over
RecordsOf(call) ==
    IF call.op = "biorxiv_records"
       THEN Collection(call.input[1], call.input[2]) ELSE call.input[1]

\* a record that parses (and, for arXiv, is inside the window)
WellFormed(record) == record.kind \in {"article", "item", "entry"}

\* a record whose parse raises
FailsToParse(record) ==
    record.kind \in {"year_overflow", "null_title", "bad_date", "not_object", "no_published"}

RecordOps == {"pubmed_records", "biorxiv_records", "arxiv_records"}

\* C25: a record that fails to parse is skipped alone: every well-formed
\* record of the payload, before and after it, is emitted, once and in
\* payload order, and the adapter's list is not empty because of the failure.
C25_ParseFailureIsolated ==
    (fn.op \in RecordOps /\ fn.applied) =>
        LET records == RecordsOf(fn)
            papers == fn.output
        IN  /\ ~fn.raised
            /\ \A i \in 1..Len(records) :
                  /\ FailsToParse(records[i]) => records[i].id \notin Range(papers)
                  /\ WellFormed(records[i]) => records[i].id \in Range(papers)
            /\ \A k \in 1..Len(papers) : \E i \in 1..Len(records) : papers[k] = records[i].id
            /\ \A k, l \in 1..Len(papers) : k < l => papers[k] < papers[l]
            /\ (\E i \in 1..Len(records) : WellFormed(records[i])) => papers # <<>>

\* the PubMed loop met a failing record between two well-formed ones and
\* emitted both
C25_Witness ==
    /\ fn.op = "pubmed_records" /\ fn.applied
    /\ Len(fn.input[1]) = 3
    /\ WellFormed(fn.input[1][1]) /\ FailsToParse(fn.input[1][2]) /\ WellFormed(fn.input[1][3])
    /\ fn.output = <<1, 3>>

\* the same for bioRxiv, the failing record first
C25_WitnessBiorxiv ==
    /\ fn.op = "biorxiv_records" /\ fn.applied
    /\ Len(fn.input[1]) = 3 /\ fn.input[2] = DefaultMaxResults
    /\ FailsToParse(fn.input[1][1]) /\ WellFormed(fn.input[1][2]) /\ WellFormed(fn.input[1][3])
    /\ fn.output = <<2, 3>>

\* the same for arXiv, the failing record between two well-formed ones
C25_WitnessArxiv ==
    /\ fn.op = "arxiv_records" /\ fn.applied
    /\ Len(fn.input[1]) = 3
    /\ WellFormed(fn.input[1][1]) /\ FailsToParse(fn.input[1][2]) /\ WellFormed(fn.input[1][3])
    /\ fn.output = <<1, 3>>

\* ---------------------------------------------------------------- C26
\* the names of the config's areas
AreaNames(config) == {config.areas[i].name : i \in 1..Len(config.areas)}

\* the place of the area called name in the iteration of config.areas
AreaIndex(name, config) ==
    CHOOSE i \in 1..Len(config.areas) : config.areas[i].name = name

\* matched lists areas of the config, none twice, in the config's order
ListsAreasInOrder(matched, config) ==
    /\ Range(matched) \subseteq AreaNames(config)
    /\ Cardinality(Range(matched)) = Len(matched)
    /\ \A k, l \in 1..Len(matched) :
          k < l => AreaIndex(matched[k], config) < AreaIndex(matched[l], config)

\* C26: every paper a call returns has a matched_areas list that is not
\* empty, has no area twice, lists only areas of the call's config and follows
\* that config's area order; a merged paper whose matched_areas is empty has
\* score 0 and is not returned.
C26_MatchedAreasOfOutput ==
    /\ \A r \in Requests :
          Done(r) => \A k \in 1..Len(ret[r]) :
              /\ ret[r][k].matched_areas # <<>>
              /\ ListsAreasInOrder(ret[r][k].matched_areas, ConfigOf(r))
    /\ \A r \in Requests :
          Recomputed(r) => \A i \in 1..Len(Merge(ResultsOf(r))) :
              LET p == score_paper(Merge(ResultsOf(r))[i], ConfigOf(r))
              IN  p.matched_areas = <<>> =>
                      /\ p.score = 0
                      /\ \A k \in 1..Len(ret[r]) : ret[r][k].url # p.url

\* ---------------------------------------------------------------- C27
\* every adapter call of request r raised or returned no paper
AllFailedOrEmpty(r) ==
    \A k \in 1..Len(ResultsOf(r)) :
        ~IsList(ResultsOf(r)[k]) \/ ResultsOf(r)[k].papers = <<>>

\* C27: a recompute whose adapters all failed or returned nothing writes the
\* slot, with its key, its timestamp and an empty paper list; a later call
\* that finds this entry under its own key less than 300 seconds after that
\* timestamp is a hit: it returns the empty list and launches no adapter.
C27_EmptySnapshotIsServed ==
    /\ [][\A q \in Requests :
            (pc[q] = "fetching" /\ pc'[q] \in {"done", "error"} /\ AllFailedOrEmpty(q)) =>
                /\ pc'[q] = "done" /\ ret'[q] = <<>>
                /\ cache' = [timestamp |-> now[q], key |-> cache_key(q), papers |-> <<>>]]_vars
    /\ [](\A q, r \in Requests :
            (Recomputed(q) /\ AllFailedOrEmpty(q) /\ Began(r) /\ seen[r] = q
             /\ cache_key(r) = cache_key(q)
             /\ now[r] - now[q] < CACHE_TTL_SECONDS)
            => (Done(r) /\ hit[r] /\ ret[r] = <<>> /\ tasks[r] = <<>> /\ completed[r] = <<>>))

\* the adapter of a recompute raised, and a later call with the same key was
\* served the empty snapshot
C27_Witness ==
    \E q, r \in Requests :
        /\ Recomputed(q) /\ tasks[q] # <<>> /\ AllFailedOrEmpty(q)
        /\ \E k \in 1..Len(ResultsOf(q)) : ~IsList(ResultsOf(q)[k])
        /\ seen[r] = q /\ cache_key(r) = cache_key(q) /\ now[r] > now[q]
        /\ Done(r) /\ hit[r] /\ ret[r] = <<>> /\ tasks[r] = <<>>

\* ---------------------------------------------------------------- C28
\* C28: the timestamp a recompute stores is the time its request read at its
\* start, before any adapter was launched, whatever the time at which the
\* results arrived; so whenever a call at time t is served from the cache,
\* the request that produced the snapshot began later than t - 300.
C28_TimestampIsRequestStart ==
    /\ [][\A q \in Requests :
            (pc[q] = "fetching" /\ pc'[q] = "done") => cache'.timestamp = now[q]]_vars
    /\ [](\A r \in Requests :
            (Done(r) /\ hit[r]) =>
                /\ seen[r] # 0 /\ Recomputed(seen[r])
                /\ now[seen[r]] > now[r] - CACHE_TTL_SECONDS)

\* request q began, request s began 299 seconds later and found nothing of q
\* in the slot (the results of q had not arrived), then q stored its snapshot
\* and request r, at the same time as s, was served it
C28_Witness ==
    \E q, s, r \in Requests :
        /\ q < s /\ s < r
        /\ Recomputed(q) /\ Began(s) /\ ~hit[s] /\ seen[s] # q
        /\ cache_key(s) = cache_key(q) /\ cache_key(r) = cache_key(q)
        /\ now[s] = now[q] + CACHE_TTL_SECONDS - 1
        /\ Done(r) /\ hit[r] /\ seen[r] = q /\ now[r] = now[s]

\* the results of q arrived 299 seconds or more after q began, and a call
\* one second after that, 300 seconds after q began, is not served them
C28_WitnessExpired ==
    \E q, s, r \in Requests :
        /\ q < s /\ s < r
        /\ Recomputed(q) /\ Began(s) /\ ~hit[s] /\ seen[s] # q
        /\ cache_key(s) = cache_key(q) /\ cache_key(r) = cache_key(q)
        /\ now[s] = now[q] + CACHE_TTL_SECONDS - 1
        /\ Began(r) /\ ~hit[r] /\ seen[r] = q /\ now[r] = now[q] + CACHE_TTL_SECONDS

TypeOK ==
    /\ \A r \in Requests : pc[r] \in {"idle", "fetching", "done", "error"}

====
